---- MODULE Spec2Model ----
(***************************************************************************)
(* Model of the gotunnel server's health registry (package health), the    *)
(* /healthz and /readyz handlers and the graceful-shutdown sequence of     *)
(* cmd/server main().                                                       *)
(*                                                                         *)
(* Processes are numbered: 0 is main(), 1..NumProbes are HTTP request      *)
(* handlers.                                                                *)
(* Every call into HealthService runs in the caller's frame, one step per  *)
(* lock operation or guarded statement.                                     *)
(*                                                                         *)
(* Spec and FairSpec are the server.  RegistrySpec is package health      *)
(* called by arbitrary concurrent goroutines, LogSpec package logging      *)
(* used by concurrent goroutines.                                          *)
(***************************************************************************)
EXTENDS Integers, FiniteSets, Sequences, TLC

\* ---- bounds ----
NumProbes == 1
\* The call counters stop counting at CountCap.
CountCap == 3
\* RegistrySpec: the number of HealthService calls the callers make.
MaxCalls == 3
\* LogSpec: the number of records logged and of Loggers created.
MaxRecords == 3
MaxLoggers == 2

\* ---- process identifiers ----
MainId == 0
Probes == 1..NumProbes
Procs == {MainId} \cup Probes
NoProc == -1

\* ---- checkers ----
\* Name() of the two checkers of package health.
Names == {"certificate", "tunnel_connections"}
\* What a checker's Check(ctx) does when invoked: return nil, return an
\* error, panic, or never return.
Behaviours == {"ok", "fail", "panic", "hang"}
Checkers == [name : Names, behaviour : Behaviours]
NoChecker == [name |-> "", behaviour |-> "none"]
\* err.Error() of the error a failing checker returns.
ErrText(name) == IF name = "certificate" THEN "cert expired" ELSE "too few connections"

VARIABLES
    ready,          \* HealthService.ready
    shuttingDown,   \* HealthService.shuttingDown
    checkers,       \* HealthService.checkers: name -> checker, partial
    muWriter,       \* HealthService.mu: the process holding the write lock
    muReaders,      \* HealthService.mu: the processes holding the read lock
    muPending,      \* HealthService.mu: the processes blocked in Lock()
    frame,          \* per process: the HealthService call it is executing
    pcMain,         \* main(): [at: the line main is at, i: index into
                    \* DrainSteps, w: inside the call of that step]
    sigChan,        \* main(): number of signals buffered in sigChan (cap 1)
    ctxState,       \* shutdownCtx: "none", "active", "expired"
    httpG,          \* goroutine running httpServer.ListenAndServe
    srvG,           \* goroutine running server.Start
    wg,             \* sync.WaitGroup counter
    httpShut,       \* httpServer.Shutdown: notCalled, running, ok, timedOut
    srvShut,        \* server.Shutdown: notCalled, running, ok, error, timedOut
    shutdownCalls,  \* number of Shutdown calls each component received
    flagCalls,      \* number of setter calls main() made while draining
    drains,         \* number of times main() began the drain
    probe,          \* per probe: the HTTP handler's state
    resp,           \* the HTTP response the last step wrote, if any
    calls,          \* number of HealthService calls made by the callers of
                    \* RegistrySpec
    lin,            \* history: the argument of the last SetReady, the last
                    \* SetShuttingDown and, per name, the last
                    \* RegisterChecker to take the write lock, and the
                    \* names whose registration replaced an earlier one
    loggers,        \* package logging: the Loggers created so far
    logMu,          \* per Logger: the process holding Logger.mu
    logPc,          \* per process: the Logger.log call it is executing
    output          \* the chunks written to os.Stdout, in order

regVars == <<ready, shuttingDown, checkers, muWriter, muReaders, muPending>>
hsVars == <<ready, shuttingDown, checkers, muWriter, muReaders, muPending, frame>>
mainVars == <<pcMain, sigChan, ctxState, httpG, srvG, wg,
              httpShut, srvShut, shutdownCalls, flagCalls, drains>>
vars == <<ready, shuttingDown, checkers, muWriter, muReaders, muPending, frame,
          pcMain, sigChan, ctxState, httpG, srvG, wg,
          httpShut, srvShut, shutdownCalls, flagCalls, drains, probe, resp,
          calls, lin, loggers, logMu, logPc, output>>
logVars == <<loggers, logMu, logPc, output>>

\* ---- frames ----
EmptyChecks == [n \in {} |-> ""]
IdleFrame == [op |-> "none", st |-> "idle", argB |-> FALSE, argC |-> NoChecker,
              rdy |-> FALSE, sd |-> FALSE, status |-> "",
              todo |-> {}, results |-> EmptyChecks]
\* A call of Check starts at its RLock(); a call of a writer starts inside
\* Lock(), announced and waiting for the lock.
CallFrame(op, b, c) ==
    [IdleFrame EXCEPT !.op = op, !.st = IF op = "Check" THEN "call" ELSE "lockWait",
                      !.argB = b, !.argC = c]

Registered == {n \in Names : checkers[n] # NoChecker}

\* The map Check returns (the timestamp is left out).
Report(f) == [status |-> f.status, ready |-> f.rdy, shutting_down |-> f.sd,
              checks |-> f.results]
NoReport == [status |-> "", ready |-> FALSE, shutting_down |-> FALSE,
             checks |-> EmptyChecks]

\* ---- requests in progress and responses ----
\* sd0: SetShuttingDown(true) had returned when the /readyz request started.
\* dirty: a flag changed its value while the /healthz request was running.
IdleProbe == [kind |-> "none", pc |-> "idle", report |-> NoReport, sdSeen |-> FALSE,
              sd0 |-> FALSE, dirty |-> FALSE]

\* resp is the response written by the step that led to the current state,
\* NoResp after every other step.  code 0: the connection was dropped
\* without a response.
NoResp == [kind |-> "none", code |-> 0, text |-> "", report |-> NoReport,
           sdSeen |-> FALSE, rdySeen |-> FALSE, sd0 |-> FALSE, dirty |-> FALSE]

\* The requests after a step that leaves the flags at r and sd: a /healthz
\* request that is running while a flag changes is marked.
MarkDirty(r, sd) ==
    [p \in Probes |->
        IF probe[p].kind = "healthz" /\ <<r, sd>> # <<ready, shuttingDown>>
        THEN [probe[p] EXCEPT !.dirty = TRUE]
        ELSE probe[p]]

\* ---- sync.RWMutex ----
\* Lock() first announces the writer, which blocks later RLock() calls, then
\* waits for the active readers to leave.
LockRequest(self) == muPending \cup {self}

\* Lock() not waiting for the readers to leave.
LockFreeIgnoresReaders == muWriter = NoProc

LockFree == muWriter = NoProc /\ muReaders = {}

\* The order in which writers take the lock is the order of their writes:
\* lin after the writer in frame[self] has taken it.
Linearize(self) ==
    LET f == frame[self] IN
    CASE f.op = "SetReady" -> [lin EXCEPT !.ready = f.argB]
      [] f.op = "SetShuttingDown" -> [lin EXCEPT !.shuttingDown = f.argB]
      [] f.op = "RegisterChecker" ->
            [lin EXCEPT !.checkers[f.argC.name] = f.argC,
                        !.replaced = IF lin.checkers[f.argC.name] # NoChecker
                                     THEN @ \cup {f.argC.name} ELSE @]
      [] OTHER -> lin

LockAcquire(self) ==
    /\ frame[self].st = "lockWait"
    /\ LockFree
    /\ muWriter' = self
    /\ muPending' = muPending \ {self}
    /\ frame' = [frame EXCEPT ![self].st = "locked"]
    /\ UNCHANGED <<ready, shuttingDown, checkers, muReaders>>
    /\ UNCHANGED <<mainVars, probe>>
    /\ lin' = Linearize(self)
    /\ UNCHANGED <<calls, logVars>>
    /\ resp' = NoResp

RLockFree == muWriter = NoProc /\ muPending = {}

\* ---- HealthService writers ----
\* RegisterChecker keeping the checker already registered under the name.
RegisterCheckerKeepFirst(self) ==
    /\ frame[self].op = "RegisterChecker"
    /\ frame[self].st = "locked"
    /\ checkers' = IF checkers[frame[self].argC.name] = NoChecker
                   THEN [checkers EXCEPT ![frame[self].argC.name] = frame[self].argC]
                   ELSE checkers
    /\ muWriter' = NoProc
    /\ frame' = [frame EXCEPT ![self].st = "ret"]
    /\ UNCHANGED <<ready, shuttingDown, muReaders, muPending>>
    /\ UNCHANGED <<mainVars, probe>>
    /\ UNCHANGED <<calls, lin, logVars>>
    /\ resp' = NoResp

RegisterChecker(self) ==
    /\ frame[self].op = "RegisterChecker"
    /\ frame[self].st = "locked"
    /\ checkers' = [checkers EXCEPT ![frame[self].argC.name] = frame[self].argC]
    /\ muWriter' = NoProc
    /\ frame' = [frame EXCEPT ![self].st = "ret"]
    /\ UNCHANGED <<ready, shuttingDown, muReaders, muPending>>
    /\ UNCHANGED <<mainVars, probe>>
    /\ UNCHANGED <<calls, lin, logVars>>
    /\ resp' = NoResp

\* SetReady storing its argument in both flags.
SetReadyBothFlags(self) ==
    /\ frame[self].op = "SetReady"
    /\ frame[self].st = "locked"
    /\ ready' = frame[self].argB
    /\ shuttingDown' = frame[self].argB
    /\ muWriter' = NoProc
    /\ frame' = [frame EXCEPT ![self].st = "ret"]
    /\ UNCHANGED <<checkers, muReaders, muPending>>
    /\ probe' = MarkDirty(ready', shuttingDown')
    /\ UNCHANGED <<mainVars>>
    /\ UNCHANGED <<calls, lin, logVars>>
    /\ resp' = NoResp

SetReady(self) ==
    /\ frame[self].op = "SetReady"
    /\ frame[self].st = "locked"
    /\ ready' = frame[self].argB
    /\ muWriter' = NoProc
    /\ frame' = [frame EXCEPT ![self].st = "ret"]
    /\ UNCHANGED <<shuttingDown, checkers, muReaders, muPending>>
    /\ probe' = MarkDirty(ready', shuttingDown')
    /\ UNCHANGED <<mainVars>>
    /\ UNCHANGED <<calls, lin, logVars>>
    /\ resp' = NoResp

SetShuttingDown(self) ==
    /\ frame[self].op = "SetShuttingDown"
    /\ frame[self].st = "locked"
    /\ shuttingDown' = frame[self].argB
    /\ muWriter' = NoProc
    /\ frame' = [frame EXCEPT ![self].st = "ret"]
    /\ UNCHANGED <<ready, checkers, muReaders, muPending>>
    /\ probe' = MarkDirty(ready', shuttingDown')
    /\ UNCHANGED <<mainVars>>
    /\ UNCHANGED <<calls, lin, logVars>>
    /\ resp' = NoResp

\* ---- HealthService flag getters ----
\* IsReady() and IsShuttingDown() take the read lock, return the flag and
\* release the lock: the caller's step reads the flag, and can be taken
\* when RLock() would not block.
IsReady == ready
IsShuttingDown == shuttingDown

\* ---- HealthService.Check ----
\* Line 157 reading h.shuttingDown in place of h.ready.
CheckReadReadyWrongField == shuttingDown

\* Line 157: the value stored under "ready".
CheckReadReady == ready

\* Line 158: the value stored under "shutting_down".
CheckReadShuttingDown == shuttingDown

\* Lines 151-158: RLock(), then the report is set up from the two flags,
\* which no writer can change while the read lock is held.
CheckRLock(self) ==
    /\ frame[self].op = "Check"
    /\ frame[self].st = "call"
    /\ RLockFree
    /\ muReaders' = muReaders \cup {self}
    /\ frame' = [frame EXCEPT ![self].st = "loop", ![self].status = "healthy",
                              ![self].rdy = CheckReadReady,
                              ![self].sd = CheckReadShuttingDown,
                              ![self].todo = Registered]
    /\ UNCHANGED <<ready, shuttingDown, checkers, muWriter, muPending>>
    /\ UNCHANGED <<mainVars, probe>>
    /\ UNCHANGED <<calls, lin, logVars>>
    /\ resp' = NoResp

\* The entry Check records for a checker that returned err (or nil).
CheckEntry(name, failed) ==
    IF failed THEN [status |-> "unhealthy", error |-> ErrText(name)]
              ELSE [status |-> "healthy", error |-> ""]

\* result["status"] overwritten by every checker, the passing ones too.
CheckStatusLastWins(status, failed) == IF failed THEN "unhealthy" ELSE "healthy"

\* The value of result["status"] after a checker returned.
CheckStatus(status, failed) == IF failed THEN "unhealthy" ELSE status

AddEntry(results, name, entry) ==
    [n \in (DOMAIN results) \cup {name} |-> IF n = name THEN entry ELSE results[n]]

\* One iteration of "for name, checker := range h.checkers"; the map is
\* ranged over in an unspecified order.
CheckLoop(self) ==
    /\ frame[self].op = "Check"
    /\ frame[self].st = "loop"
    /\ \E name \in frame[self].todo :
         LET b == checkers[name].behaviour
             f == frame[self]
         IN  \/ /\ b \in {"ok", "fail"}
                /\ frame' = [frame EXCEPT ![self] =
                     [f EXCEPT !.todo = f.todo \ {name},
                               !.results = AddEntry(f.results, name, CheckEntry(name, b = "fail")),
                               !.status = CheckStatus(f.status, b = "fail")]]
                /\ UNCHANGED muReaders
             \/ /\ b = "panic"
                /\ frame' = [frame EXCEPT ![self] =
                     [f EXCEPT !.todo = f.todo \ {name}, !.st = "panic"]]
                /\ muReaders' = muReaders \ {self}
             \/ /\ b = "hang"
                /\ frame' = [frame EXCEPT ![self] =
                     [f EXCEPT !.todo = f.todo \ {name}, !.st = "hung"]]
                /\ UNCHANGED muReaders
    /\ UNCHANGED <<ready, shuttingDown, checkers, muWriter, muPending>>
    /\ UNCHANGED <<mainVars, probe>>
    /\ UNCHANGED <<calls, lin, logVars>>
    /\ resp' = NoResp

CheckReturn(self) ==
    /\ frame[self].op = "Check"
    /\ frame[self].st = "loop"
    /\ frame[self].todo = {}
    /\ muReaders' = muReaders \ {self}
    /\ frame' = [frame EXCEPT ![self].st = "ret"]
    /\ UNCHANGED <<ready, shuttingDown, checkers, muWriter, muPending>>
    /\ UNCHANGED <<mainVars, probe>>
    /\ UNCHANGED <<calls, lin, logVars>>
    /\ resp' = NoResp

\* One step of whatever HealthService method process self is executing.
HealthStep(self) ==
    \/ LockAcquire(self)
    \/ RegisterChecker(self)
    \/ SetReady(self)
    \/ SetShuttingDown(self)
    \/ CheckRLock(self)
    \/ CheckLoop(self)
    \/ CheckReturn(self)

\* ---- cmd/server main() ----
Pc(at) == [at |-> at, i |-> 0, w |-> FALSE]
Inc(n) == IF n < CountCap THEN n + 1 ELSE n

\* DrainSteps with the HTTP server's Shutdown moved before SetReady(false).
DrainStepsLateFlip ==
    << [op |-> "SetShuttingDown", arg |-> TRUE],
       [op |-> "httpShutdown", arg |-> FALSE],
       [op |-> "SetReady", arg |-> FALSE],
       [op |-> "tunnelShutdown", arg |-> FALSE] >>

\* Lines 114-130: what main() does, in order, once shutdownCtx exists.
DrainSteps ==
    << [op |-> "SetShuttingDown", arg |-> TRUE],
       [op |-> "SetReady", arg |-> FALSE],
       [op |-> "httpShutdown", arg |-> FALSE],
       [op |-> "tunnelShutdown", arg |-> FALSE] >>

\* Line 47: healthService.SetReady(true), right after NewHealthService().
MainSetReadyTrue ==
    /\ \/ /\ pcMain = Pc("l47")
          /\ frame[MainId].st = "idle"
          /\ frame' = [frame EXCEPT ![MainId] = CallFrame("SetReady", TRUE, NoChecker)]
          /\ muPending' = LockRequest(MainId)
          /\ pcMain' = [Pc("l47") EXCEPT !.w = TRUE]
       \/ /\ pcMain = [Pc("l47") EXCEPT !.w = TRUE]
          /\ frame[MainId].st = "ret"
          /\ frame' = [frame EXCEPT ![MainId] = IdleFrame]
          /\ pcMain' = Pc("l50")
          /\ UNCHANGED muPending
    /\ UNCHANGED <<ready, shuttingDown, checkers, muWriter, muReaders, sigChan, ctxState, httpG, srvG, wg,
                   httpShut, srvShut, shutdownCalls, flagCalls, drains, probe>>
    /\ UNCHANGED <<calls, lin, logVars>>
    /\ resp' = NoResp

\* Lines 50-60: LoadMTLSConfig; on error logger.Fatal exits the process.
MainLoadTLS ==
    /\ pcMain = Pc("l50")
    /\ \E ok \in BOOLEAN : pcMain' = IF ok THEN Pc("l63") ELSE Pc("fatal")
    /\ UNCHANGED <<hsVars, sigChan, ctxState, httpG, srvG, wg,
                   httpShut, srvShut, shutdownCalls, flagCalls, drains, probe>>
    /\ UNCHANGED <<calls, lin, logVars>>
    /\ resp' = NoResp

\* Lines 63-104: build both servers, signal.Notify, wg.Add(2), start the two
\* serving goroutines.
MainStartServers ==
    /\ pcMain = Pc("l63")
    /\ frame[MainId].st = "idle"
    /\ pcMain' = Pc("l107")
    /\ wg' = 2
    /\ srvG' = "running"
    /\ httpG' = "starting"
    /\ UNCHANGED <<hsVars, sigChan, ctxState,
                   httpShut, srvShut, shutdownCalls, flagCalls, drains, probe>>
    /\ UNCHANGED <<calls, lin, logVars>>
    /\ resp' = NoResp

\* main() receiving from sigChan again after a drain.
MainAwaitsSignalLoop == pcMain.at \in {"l107", "l133"}

\* Line 107: the only place main() receives from sigChan.
MainAwaitsSignal == pcMain = Pc("l107")

\* Lines 107-112: <-sigChan, log, context.WithTimeout(30s).
MainRecvSignal ==
    /\ MainAwaitsSignal
    /\ sigChan > 0
    /\ sigChan' = sigChan - 1
    /\ ctxState' = "active"
    /\ drains' = Inc(drains)
    /\ pcMain' = [at |-> "drain", i |-> 1, w |-> FALSE]
    /\ UNCHANGED <<hsVars, httpG, srvG, wg,
                   httpShut, srvShut, shutdownCalls, flagCalls, probe>>
    /\ UNCHANGED <<calls, lin, logVars>>
    /\ resp' = NoResp

AtDrain(op, w) ==
    /\ pcMain.at = "drain"
    /\ DrainSteps[pcMain.i].op = op
    /\ pcMain.w = w

\* A handler is running: http.Server.Shutdown waits for these.
ActiveProbes == {p \in Probes : probe[p].pc # "idle"}

\* DrainNext giving up the rest of the sequence when the HTTP server's
\* Shutdown ran into the deadline.
DrainNextStopOnError ==
    IF /\ pcMain.i < Len(DrainSteps)
       /\ ~(AtDrain("httpShutdown", TRUE) /\ ctxState = "expired" /\ ActiveProbes # {})
    THEN [at |-> "drain", i |-> pcMain.i + 1, w |-> FALSE]
    ELSE Pc("l133")

\* The next line of main() after step pcMain.i of DrainSteps: an error
\* returned by a Shutdown is logged and the sequence goes on.
DrainNext == IF pcMain.i < Len(DrainSteps)
             THEN [at |-> "drain", i |-> pcMain.i + 1, w |-> FALSE]
             ELSE Pc("l133")

\* Lines 115-116: the two setter calls.
MainSetFlag ==
    /\ \E op \in {"SetShuttingDown", "SetReady"} :
         \/ /\ AtDrain(op, FALSE)
            /\ frame[MainId].st = "idle"
            /\ frame' = [frame EXCEPT ![MainId] =
                           CallFrame(op, DrainSteps[pcMain.i].arg, NoChecker)]
            /\ muPending' = LockRequest(MainId)
            /\ flagCalls' = [flagCalls EXCEPT ![op] = Inc(@)]
            /\ pcMain' = [pcMain EXCEPT !.w = TRUE]
         \/ /\ AtDrain(op, TRUE)
            /\ frame[MainId].st = "ret"
            /\ frame' = [frame EXCEPT ![MainId] = IdleFrame]
            /\ pcMain' = DrainNext
            /\ UNCHANGED <<flagCalls, muPending>>
    /\ UNCHANGED <<ready, shuttingDown, checkers, muWriter, muReaders, sigChan, ctxState, httpG, srvG, wg,
                   httpShut, srvShut, shutdownCalls, drains, probe>>
    /\ UNCHANGED <<calls, lin, logVars>>
    /\ resp' = NoResp

\* Line 119: httpServer.Shutdown(shutdownCtx) closes the listener, then
\* returns nil once no handler is running, or ctx.Err() once shutdownCtx
\* has expired.
MainHttpShutdown ==
    /\ \/ /\ AtDrain("httpShutdown", FALSE)
          /\ httpShut' = "running"
          /\ shutdownCalls' = [shutdownCalls EXCEPT !.http = Inc(@)]
          /\ pcMain' = [pcMain EXCEPT !.w = TRUE]
       \/ /\ AtDrain("httpShutdown", TRUE)
          /\ \/ ActiveProbes = {} /\ httpShut' = "ok"
             \/ ctxState = "expired" /\ ActiveProbes # {} /\ httpShut' = "timedOut"
          /\ pcMain' = DrainNext
          /\ UNCHANGED shutdownCalls
    /\ UNCHANGED <<hsVars, sigChan, ctxState, httpG, srvG, wg,
                   srvShut, flagCalls, drains, probe>>
    /\ UNCHANGED <<calls, lin, logVars>>
    /\ resp' = NoResp

\* Line 126: server.Shutdown(shutdownCtx). It returns nil or an error, or
\* gives up when shutdownCtx expires.
MainTunnelShutdown ==
    /\ \/ /\ AtDrain("tunnelShutdown", FALSE)
          /\ srvShut' = "running"
          /\ shutdownCalls' = [shutdownCalls EXCEPT !.tunnel = Inc(@)]
          /\ pcMain' = [pcMain EXCEPT !.w = TRUE]
       \/ /\ AtDrain("tunnelShutdown", TRUE)
          /\ \/ srvShut' \in {"ok", "error"}
             \/ ctxState = "expired" /\ srvShut' = "timedOut"
          /\ pcMain' = DrainNext
          /\ UNCHANGED shutdownCalls
    /\ UNCHANGED <<hsVars, sigChan, ctxState, httpG, srvG, wg,
                   httpShut, flagCalls, drains, probe>>
    /\ UNCHANGED <<calls, lin, logVars>>
    /\ resp' = NoResp

\* Lines 132-135: wg.Wait(), then main returns.
MainWgWait ==
    /\ pcMain = Pc("l133")
    /\ wg = 0
    /\ pcMain' = Pc("returned")
    /\ UNCHANGED <<hsVars, sigChan, ctxState, httpG, srvG, wg,
                   httpShut, srvShut, shutdownCalls, flagCalls, drains, probe>>
    /\ UNCHANGED <<calls, lin, logVars>>
    /\ resp' = NoResp

\* ---- the environment of main() ----
\* signal.Notify(sigChan, SIGINT, SIGTERM) with a channel of capacity 1: the
\* runtime's send does not block, a signal that finds the buffer full is
\* dropped.
SignalArrives ==
    /\ pcMain.at \in {"l107", "drain", "l133"}
    /\ sigChan' = IF sigChan < 1 THEN sigChan + 1 ELSE sigChan
    /\ UNCHANGED <<hsVars, pcMain, ctxState, httpG, srvG, wg,
                   httpShut, srvShut, shutdownCalls, flagCalls, drains, probe>>
    /\ UNCHANGED <<calls, lin, logVars>>
    /\ resp' = NoResp

\* The 30 s of context.WithTimeout run out.
DeadlineExpires ==
    /\ ctxState = "active"
    /\ ctxState' = "expired"
    /\ UNCHANGED <<hsVars, pcMain, sigChan, httpG, srvG, wg,
                   httpShut, srvShut, shutdownCalls, flagCalls, drains, probe>>
    /\ UNCHANGED <<calls, lin, logVars>>
    /\ resp' = NoResp

\* Lines 94-104: ListenAndServe either fails to listen, or serves until
\* Shutdown makes it return ErrServerClosed; then the deferred wg.Done().
HttpGoroutine ==
    /\ \/ httpG = "starting" /\ httpShut = "notCalled" /\ httpG' \in {"serving", "done"}
       \/ httpG \in {"starting", "serving"} /\ httpShut # "notCalled" /\ httpG' = "done"
    /\ wg' = IF httpG' = "done" THEN wg - 1 ELSE wg
    /\ UNCHANGED <<hsVars, pcMain, sigChan, ctxState, srvG,
                   httpShut, srvShut, shutdownCalls, flagCalls, drains, probe>>
    /\ UNCHANGED <<calls, lin, logVars>>
    /\ resp' = NoResp

\* Lines 81-91: server.Start() returns (with or without an error) at a time
\* of its own choosing, or never; then the deferred wg.Done().
TunnelGoroutine ==
    /\ srvG = "running"
    /\ srvG' = "done"
    /\ wg' = wg - 1
    /\ UNCHANGED <<hsVars, pcMain, sigChan, ctxState, httpG,
                   httpShut, srvShut, shutdownCalls, flagCalls, drains, probe>>
    /\ UNCHANGED <<calls, lin, logVars>>
    /\ resp' = NoResp

\* ---- what main() has done so far ----
\* Step j of DrainSteps has returned.
StepDone(j) ==
    \/ pcMain.at \in {"l133", "returned"}
    \/ /\ pcMain.at = "drain"
       /\ \/ pcMain.i > j
          \/ /\ pcMain.i = j
             /\ pcMain.w
             /\ DrainSteps[j].op \in {"SetShuttingDown", "SetReady"}
             /\ frame[MainId].st = "ret"

Returned(op, arg) ==
    \E j \in 1..Len(DrainSteps) :
        DrainSteps[j] = [op |-> op, arg |-> arg] /\ StepDone(j)

\* ---- HTTP handlers (setupHTTPServer) ----
Response(p, code, text, report, sdSeen, rdySeen) ==
    [kind |-> probe[p].kind, code |-> code, text |-> text, report |-> report,
     sdSeen |-> sdSeen, rdySeen |-> rdySeen,
     sd0 |-> probe[p].sd0, dirty |-> probe[p].dirty]

\* The listener accepts a request: the server is serving and Shutdown has
\* not closed the listener.  Handlers are interchangeable; the request runs
\* in the first one that is free.
ProbeStart(p) ==
    /\ probe[p].pc = "idle"
    /\ \A q \in Probes : q < p => probe[q].pc # "idle"
    /\ httpG = "serving"
    /\ httpShut = "notCalled"
    /\ \E kind \in {"healthz", "readyz"} :
         /\ probe' = [probe EXCEPT ![p] =
                [IdleProbe EXCEPT !.kind = kind,
                                  !.pc = IF kind = "healthz" THEN "hz142" ELSE "rz155",
                                  !.sd0 = kind = "readyz" /\ Returned("SetShuttingDown", TRUE)]]
         /\ frame' = [frame EXCEPT ![p] =
                IF kind = "healthz" THEN CallFrame("Check", FALSE, NoChecker) ELSE IdleFrame]
    /\ UNCHANGED <<calls, lin, logVars>>
    /\ resp' = NoResp
    /\ UNCHANGED <<regVars, mainVars>>

\* Line 145 without the IsShuttingDown() disjunct.
HealthzStatusReportOnly(status, sd) == IF status = "unhealthy" THEN 503 ELSE 200

\* Line 145: the status code of /healthz.
HealthzStatus(status, sd) == IF status = "unhealthy" \/ sd THEN 503 ELSE 200

\* Lines 141-152.  A panic out of Check unwinds the handler; net/http
\* recovers it and drops the connection without a response.
HealthzHandler(p) ==
    /\ probe[p].kind = "healthz"
    /\ \/ /\ probe[p].pc = "hz142"
          /\ frame[p].st = "ret"
          /\ probe' = [probe EXCEPT ![p].pc = "hz145", ![p].report = Report(frame[p])]
          /\ resp' = NoResp
       \/ /\ probe[p].pc = "hz142"
          /\ frame[p].st = "panic"
          /\ probe' = [probe EXCEPT ![p] = IdleProbe]
          /\ resp' = Response(p, 0, "", NoReport, FALSE, FALSE)
       \/ /\ probe[p].pc = "hz145"
          /\ RLockFree
          /\ probe' = [probe EXCEPT ![p] = IdleProbe]
          /\ resp' = Response(p, HealthzStatus(probe[p].report.status, IsShuttingDown),
                              "", probe[p].report, IsShuttingDown, FALSE)
    /\ frame' = [frame EXCEPT ![p] = IdleFrame]
    /\ UNCHANGED <<calls, lin, logVars>>
    /\ UNCHANGED <<regVars, mainVars>>

\* Lines 155-168 with the two tests in the other order.
ReadyzResponseReadyFirst(sd, rdy) ==
    IF ~rdy THEN [code |-> 503, text |-> "not ready"]
    ELSE IF sd THEN [code |-> 503, text |-> "shutting down"]
    ELSE [code |-> 200, text |-> "ready"]

\* Lines 155-168: the response of /readyz for the two values read.
ReadyzResponse(sd, rdy) ==
    IF sd THEN [code |-> 503, text |-> "shutting down"]
    ELSE IF ~rdy THEN [code |-> 503, text |-> "not ready"]
    ELSE [code |-> 200, text |-> "ready"]

\* Lines 154-169: IsShuttingDown() at line 155, then IsReady() at line 161
\* unless the first answer was true.
ReadyzHandler(p) ==
    /\ probe[p].kind = "readyz"
    /\ RLockFree
    /\ \/ /\ probe[p].pc = "rz155"
          /\ IsShuttingDown
          /\ probe' = [probe EXCEPT ![p] = IdleProbe]
          /\ resp' = Response(p, ReadyzResponse(TRUE, FALSE).code,
                              ReadyzResponse(TRUE, FALSE).text, NoReport, TRUE, FALSE)
       \/ /\ probe[p].pc = "rz155"
          /\ ~IsShuttingDown
          /\ probe' = [probe EXCEPT ![p].pc = "rz161", ![p].sdSeen = FALSE]
          /\ resp' = NoResp
       \/ /\ probe[p].pc = "rz161"
          /\ probe' = [probe EXCEPT ![p] = IdleProbe]
          /\ resp' = Response(p, ReadyzResponse(FALSE, IsReady).code,
                              ReadyzResponse(FALSE, IsReady).text,
                              NoReport, FALSE, IsReady)
    /\ UNCHANGED <<calls, lin, logVars>>
    /\ UNCHANGED <<hsVars, mainVars>>

\* ---- registration during startup ----
\* Checkers are registered while main() builds the servers (line 63),
\* before any goroutine is started, each of the two checkers at most once
\* (RegistrySpec registers names again).
StartupRegister ==
    /\ pcMain = Pc("l63")
    /\ \/ /\ frame[MainId].st = "idle"
          /\ \E chk \in Checkers :
               /\ checkers[chk.name] = NoChecker
               /\ frame' = [frame EXCEPT ![MainId] = CallFrame("RegisterChecker", FALSE, chk)]
          /\ muPending' = LockRequest(MainId)
       \/ /\ frame[MainId].st = "ret"
          /\ frame' = [frame EXCEPT ![MainId] = IdleFrame]
          /\ UNCHANGED muPending
    /\ UNCHANGED <<ready, shuttingDown, checkers, muWriter, muReaders, mainVars, probe>>
    /\ UNCHANGED <<calls, lin, logVars>>
    /\ resp' = NoResp

\* ---- package logging ----
BaseLogger == 0
IdleLog == [st |-> "idle", logger |-> BaseLogger, rec |-> 0]

\* NewLogger(): one Logger writing to os.Stdout, its mutex free.
NewLogger ==
    /\ loggers = {BaseLogger}
    /\ logMu = [l \in {BaseLogger} |-> NoProc]
    /\ logPc = [q \in Procs |-> IdleLog]
    /\ output = << >>

\* The records being written or already written.
UsedRecs ==
    {output[i].rec : i \in 1..Len(output)}
        \cup {logPc[q].rec : q \in {x \in Procs : logPc[x].st # "idle"}}

\* Lines 123-131: WithFields returns a new Logger, with a mutex of its own,
\* that writes to the output of the Logger it is derived from.
WithFields(l) ==
    /\ l \in loggers
    /\ Cardinality(loggers) < MaxLoggers
    /\ LET new == Cardinality(loggers) IN
         /\ loggers' = loggers \cup {new}
         /\ logMu' = [k \in loggers \cup {new} |-> IF k = new THEN NoProc ELSE logMu[k]]
    /\ UNCHANGED <<logPc, output>>
    /\ UNCHANGED <<hsVars, mainVars, probe, calls, lin>>
    /\ resp' = NoResp

\* Lines 71-95: a call of l.log; a record below the Logger's level, or one
\* the formatter fails on, is dropped before the lock is touched.
LogCall(self) ==
    /\ logPc[self].st = "idle"
    /\ Cardinality(UsedRecs) < MaxRecords
    /\ \E l \in loggers, written \in BOOLEAN :
         logPc' = IF written
                  THEN [logPc EXCEPT ![self] =
                          [st |-> "lockWait", logger |-> l, rec |-> Cardinality(UsedRecs) + 1]]
                  ELSE logPc
    /\ UNCHANGED <<loggers, logMu, output>>
    /\ UNCHANGED <<hsVars, mainVars, probe, calls, lin>>
    /\ resp' = NoResp

\* Line 97: l.mu.Lock().
LogLock(self) ==
    /\ logPc[self].st = "lockWait"
    /\ logMu[logPc[self].logger] = NoProc
    /\ logMu' = [logMu EXCEPT ![logPc[self].logger] = self]
    /\ logPc' = [logPc EXCEPT ![self].st = "locked"]
    /\ UNCHANGED <<loggers, output>>
    /\ UNCHANGED <<hsVars, mainVars, probe, calls, lin>>
    /\ resp' = NoResp

\* Line 99: l.output.Write(data).
LogWriteData(self) ==
    /\ logPc[self].st = "locked"
    /\ output' = Append(output, [rec |-> logPc[self].rec, part |-> "data"])
    /\ logPc' = [logPc EXCEPT ![self].st = "wroteData"]
    /\ UNCHANGED <<loggers, logMu>>
    /\ UNCHANGED <<hsVars, mainVars, probe, calls, lin>>
    /\ resp' = NoResp

\* Lines 100-101: l.output.Write("\n"), then the deferred l.mu.Unlock().
LogWriteNewline(self) ==
    /\ logPc[self].st = "wroteData"
    /\ output' = Append(output, [rec |-> logPc[self].rec, part |-> "newline"])
    /\ logMu' = [logMu EXCEPT ![logPc[self].logger] = NoProc]
    /\ logPc' = [logPc EXCEPT ![self] = IdleLog]
    /\ UNCHANGED loggers
    /\ UNCHANGED <<hsVars, mainVars, probe, calls, lin>>
    /\ resp' = NoResp

\* ---- the server ----
\* NewHealthService(): empty checker map, both flags false, lock free.
NewHealthService ==
    /\ ready = FALSE
    /\ shuttingDown = FALSE
    /\ checkers = [n \in Names |-> NoChecker]
    /\ muWriter = NoProc
    /\ muReaders = {}
    /\ muPending = {}

Init ==
    /\ NewHealthService
    /\ frame = [q \in Procs |-> IdleFrame]
    /\ pcMain = Pc("l47")
    /\ sigChan = 0
    /\ ctxState = "none"
    /\ httpG = "notStarted"
    /\ srvG = "notStarted"
    /\ wg = 0
    /\ httpShut = "notCalled"
    /\ srvShut = "notCalled"
    /\ shutdownCalls = [http |-> 0, tunnel |-> 0]
    /\ flagCalls = [SetShuttingDown |-> 0, SetReady |-> 0]
    /\ drains = 0
    /\ probe = [p \in Probes |-> IdleProbe]
    /\ resp = NoResp
    /\ calls = 0
    /\ lin = [ready |-> FALSE, shuttingDown |-> FALSE,
              checkers |-> [n \in Names |-> NoChecker], replaced |-> {}]
    /\ NewLogger

Next ==
    \/ \E self \in Procs : HealthStep(self)
    \/ MainSetReadyTrue
    \/ MainLoadTLS
    \/ MainStartServers
    \/ MainRecvSignal
    \/ MainSetFlag
    \/ MainHttpShutdown
    \/ MainTunnelShutdown
    \/ MainWgWait
    \/ SignalArrives
    \/ DeadlineExpires
    \/ HttpGoroutine
    \/ TunnelGoroutine
    \/ StartupRegister
    \/ \E p \in Probes : ProbeStart(p) \/ HealthzHandler(p) \/ ReadyzHandler(p)

Spec == Init /\ [][Next]_vars

\* ---- package health under arbitrary callers ----
\* RegistrySpec: the processes are goroutines of a program that calls the
\* exported methods of one HealthService in any order and with any
\* arguments, MaxCalls calls in all.  Idle goroutines are interchangeable;
\* a call is made by the first idle one.
Methods == {"SetReady", "SetShuttingDown", "RegisterChecker", "Check"}

CallerCall(self) ==
    /\ frame[self].st = "idle"
    /\ \A q \in Procs : q < self => frame[q].st # "idle"
    /\ calls < MaxCalls
    /\ calls' = calls + 1
    /\ \E op \in Methods, b \in BOOLEAN, chk \in Checkers :
         /\ op = "Check" => (~b /\ chk = CHOOSE c \in Checkers : TRUE)
         /\ op = "RegisterChecker" => ~b
         /\ op \in {"SetReady", "SetShuttingDown"} => chk = CHOOSE c \in Checkers : TRUE
         /\ frame' = [frame EXCEPT ![self] =
                CallFrame(op, b, IF op = "RegisterChecker" THEN chk ELSE NoChecker)]
         /\ muPending' = IF op = "Check" THEN muPending ELSE LockRequest(self)
    /\ UNCHANGED <<ready, shuttingDown, checkers, muWriter, muReaders, mainVars, probe>>
    /\ UNCHANGED <<lin, logVars>>
    /\ resp' = NoResp

\* The call returns to the caller (a panic out of Check unwinds it).
CallerReturn(self) ==
    /\ frame[self].st \in {"ret", "panic"}
    /\ frame' = [frame EXCEPT ![self] = IdleFrame]
    /\ UNCHANGED <<regVars, mainVars, probe>>
    /\ UNCHANGED <<calls, lin, logVars>>
    /\ resp' = NoResp

NextRegistry ==
    \/ \E self \in Procs : HealthStep(self)
    \/ \E self \in Procs : CallerCall(self)
    \/ \E self \in Procs : CallerReturn(self)

RegistrySpec == Init /\ [][NextRegistry]_vars

\* ---- package logging under concurrent callers ----
\* LogSpec: the processes are goroutines that log through any of the
\* Loggers created so far.
NextLog ==
    \/ \E l \in 0..(MaxLoggers - 1) : WithFields(l)
    \/ \E self \in Procs : LogCall(self)
    \/ \E self \in Procs : LogLock(self)
    \/ \E self \in Procs : LogWriteData(self)
    \/ \E self \in Procs : LogWriteNewline(self)

LogSpec == Init /\ [][NextLog]_vars

\* ---- scheduling ----
\* The Go scheduler runs every goroutine that can take a step, and the
\* timer of shutdownCtx fires.  Nothing obliges a signal to arrive, a
\* request to be made, server.Start() to return, or a hanging checker to
\* answer.
MainStep ==
    \/ MainSetReadyTrue
    \/ MainLoadTLS
    \/ MainStartServers
    \/ MainRecvSignal
    \/ MainSetFlag
    \/ MainHttpShutdown
    \/ MainTunnelShutdown
    \/ MainWgWait

FairSpec ==
    /\ Spec
    /\ WF_vars(MainStep)
    /\ WF_vars(DeadlineExpires)
    /\ WF_vars(HttpGoroutine)
    /\ \A self \in Procs : WF_vars(HealthStep(self))
    /\ \A p \in Probes : WF_vars(HealthzHandler(p) \/ ReadyzHandler(p))

\* ---- properties ----
TeardownBegun == httpShut # "notCalled" \/ srvShut # "notCalled"
TeardownComplete == httpShut \in {"ok", "timedOut"} /\ srvShut \in {"ok", "error", "timedOut"}
Triggered == drains > 0

\* C1: whenever the Shutdown of a component has been started, shuttingDown
\* is true and ready is false; and after startup ready is never false
\* unless shuttingDown is already true (the two writes happen in that order).
C1_FlagsBeforeTeardown ==
    /\ TeardownBegun => (shuttingDown /\ ~ready)
    /\ (pcMain.at # "l47" /\ ~ready) => shuttingDown

W_C1 == httpShut = "running" /\ srvShut = "notCalled" /\ shuttingDown /\ ~ready

\* Process p reads the ready flag in this step (IsReady, or line 157 of
\* Check), and the value it obtains.
ReadsReady(p) ==
    \/ frame[p].op = "Check" /\ frame[p].st = "call" /\ frame'[p].st = "loop"
    \/ probe[p].pc = "rz161" /\ probe'[p].pc = "idle"
ReadyObserved(p) == IF frame[p].op = "Check" THEN frame'[p].rdy ELSE resp'.rdySeen

\* C2 (as claimed): between the receipt of the termination signal and the
\* end of component teardown no probe reads ready = true and no /readyz
\* response is 200 "ready".
C2_NoReadyAfterTrigger ==
    [][ /\ \A p \in Probes :
             (ReadsReady(p) /\ Triggered /\ ~TeardownComplete) => ~ReadyObserved(p)
        /\ (Triggered' /\ ~TeardownComplete' /\ resp'.kind = "readyz") => resp'.code # 200
      ]_vars

\* C2 (amended): once SetReady(false) has returned, and until component
\* teardown is complete, no probe reads ready = true; and no /readyz request
\* that starts after SetShuttingDown(true) has returned is answered 200.
C2_NoReadyAfterFlip ==
    [][ /\ \A p \in Probes :
             (ReadsReady(p) /\ Returned("SetReady", FALSE) /\ ~TeardownComplete)
                 => ~ReadyObserved(p)
        /\ (resp'.kind = "readyz" /\ resp'.sd0) => resp'.code # 200
      ]_vars

W_C2 ==
    \E p \in Probes :
        /\ frame[p].op = "Check"
        /\ frame[p].st = "loop"
        /\ ~frame[p].rdy
        /\ Returned("SetReady", FALSE)
        /\ ~TeardownComplete

\* C3: one component's teardown does not hold up the other's: when the HTTP
\* server's Shutdown is still blocked at the shared deadline (or has given
\* up at it), the tunnel server's Shutdown has been started.
C3_TeardownIndependent ==
    (ctxState = "expired" /\ httpShut \in {"running", "timedOut"}) => srvShut # "notCalled"

\* C4: once the termination signal has been received and the shared
\* deadline has been reached, main() eventually returns.
C4_DrainTerminates ==
    (Triggered /\ ctxState = "expired") ~> (pcMain.at = "returned")

\* C5: every call of Check returns.
C5_CheckReturns ==
    \A p \in Probes :
        (frame[p].op = "Check" /\ frame[p].st = "call") ~> (frame[p].st = "ret")

\* C6: a Check that returns reports "unhealthy" exactly when some registered
\* checker fails; the report has one entry per registered checker, a failing
\* checker's entry "unhealthy" with its error text, a passing one's
\* "healthy"; with no checker registered the report is "healthy".
C6_Aggregation ==
    \A p \in Procs :
        (frame[p].op = "Check" /\ frame[p].st = "ret") =>
            LET r == Report(frame[p]) IN
            /\ DOMAIN r.checks = Registered
            /\ r.status = IF \E n \in Registered : checkers[n].behaviour = "fail"
                          THEN "unhealthy" ELSE "healthy"
            /\ \A n \in Registered :
                 r.checks[n] = IF checkers[n].behaviour = "fail"
                               THEN [status |-> "unhealthy", error |-> ErrText(n)]
                               ELSE [status |-> "healthy", error |-> ""]

\* A returned Check over two checkers, one failing and one passing.
W_C6 ==
    \E p \in Procs :
        /\ frame[p].op = "Check"
        /\ frame[p].st = "ret"
        /\ frame[p].status = "unhealthy"
        /\ \E n \in Registered : checkers[n].behaviour = "ok"
        /\ \E n \in Registered : checkers[n].behaviour = "fail"

\* A returned Check with no checker registered.
W_C6_Empty ==
    \E p \in Procs :
        frame[p].op = "Check" /\ frame[p].st = "ret" /\ Registered = {}

\* C7: every call of Check ends by returning, with every registered checker
\* invoked and its result recorded, whatever the checkers do: a fault in one
\* checker is not raised to the caller and the others still run.
C7_Isolation ==
    \A p \in Procs :
        (frame[p].op = "Check" /\ frame[p].st \in {"ret", "panic"}) =>
            /\ frame[p].st = "ret"
            /\ frame[p].todo = {}
            /\ DOMAIN frame[p].results = Registered

\* C8: the /readyz response is "shutting down" (503) when shuttingDown was
\* read true, else "not ready" (503) when ready was read false, else "ready"
\* (200); a request that starts after SetShuttingDown(true) has returned is
\* answered 503 "shutting down"; the handler never calls Check.
C8_Readyz ==
    /\ resp.kind = "readyz" =>
         /\ resp.sdSeen => (resp.code = 503 /\ resp.text = "shutting down")
         /\ (~resp.sdSeen /\ ~resp.rdySeen) => (resp.code = 503 /\ resp.text = "not ready")
         /\ (~resp.sdSeen /\ resp.rdySeen) => (resp.code = 200 /\ resp.text = "ready")
         /\ resp.sd0 => (resp.code = 503 /\ resp.text = "shutting down")
    /\ \A p \in Probes : probe[p].kind = "readyz" => frame[p].op = "none"

\* A /readyz request begun after SetShuttingDown(true) returned and answered
\* while ready is still true.
W_C8 ==
    /\ resp.kind = "readyz"
    /\ resp.sd0
    /\ ready
    /\ resp.text = "shutting down"
    /\ \E n \in Registered : checkers[n].behaviour = "ok"

\* C9: a /healthz request during which no flag changed is answered 503
\* exactly when its report is "unhealthy" or shuttingDown is true, and 200
\* otherwise, whatever ready is; the body is the report Check returned.
C9_Healthz ==
    (resp.kind = "healthz" /\ resp.code # 0 /\ ~resp.dirty) =>
        /\ resp.code = IF resp.report.status = "unhealthy" \/ shuttingDown THEN 503 ELSE 200
        /\ resp.report.status \in {"healthy", "unhealthy"}
        /\ resp.report.ready = ready
        /\ resp.report.shutting_down = shuttingDown
        /\ DOMAIN resp.report.checks = Registered

\* A healthy report answered 503 because the server is shutting down.
W_C9 ==
    /\ resp.kind = "healthz"
    /\ ~resp.dirty
    /\ resp.code = 503
    /\ resp.report.status = "healthy"
    /\ shuttingDown

\* An unhealthy report answered 503 while ready and not shutting down.
W_C9_Unhealthy ==
    /\ resp.kind = "healthz"
    /\ ~resp.dirty
    /\ resp.code = 503
    /\ resp.report.status = "unhealthy"
    /\ ready /\ ~shuttingDown

\* C10: however many termination signals arrive, main() begins the drain at
\* most once, calls each setter at most once while draining, and calls each
\* component's Shutdown at most once.
C10_DrainOnce ==
    /\ drains <= 1
    /\ flagCalls["SetShuttingDown"] <= 1
    /\ flagCalls["SetReady"] <= 1
    /\ shutdownCalls.http <= 1
    /\ shutdownCalls.tunnel <= 1

\* A second signal is waiting in sigChan after the first one was received
\* and the whole drain has run.
W_C10 ==
    /\ drains = 1
    /\ sigChan = 1
    /\ pcMain.at = "returned"
    /\ shutdownCalls = [http |-> 1, tunnel |-> 1]

\* The outcome of a Shutdown call that has returned.
HttpOutcomes == {"ok", "timedOut"}
TunnelOutcomes == {"ok", "error", "timedOut"}

NotStarted == httpG \in {"notStarted", "starting"} \/ srvG = "notStarted"

\* C12: ready is true only once both servers have been started.
C12_ReadyAfterStartup == ready => ~NotStarted

\* C13: once the termination signal has been received, SetShuttingDown(true)
\* and SetReady(false) eventually return.
C13_DrainBegins == Triggered ~> Returned("SetReady", FALSE)

\* C14: the status code of a /healthz response agrees with the report in its
\* body: 200 goes with "healthy" and shutting_down = false, 503 with
\* "unhealthy" or shutting_down = true.
C14_CodeAgreesWithBody ==
    (resp.kind = "healthz" /\ resp.code # 0) =>
        /\ resp.code = 200 =>
              (resp.report.status = "healthy" /\ ~resp.report.shutting_down)
        /\ resp.code = 503 =>
              (resp.report.status = "unhealthy" \/ resp.report.shutting_down)

\* C18: no /readyz request is answered 503 "not ready" once the server has
\* been started.
C18_NeverNotReady == resp.kind = "readyz" => resp.text # "not ready"

\* Process self executes the write of method op in this step.
WriteStep(self, op) ==
    /\ frame[self].op = op
    /\ frame[self].st = "locked"
    /\ frame'[self].st = "ret"

\* Some process is between Lock() and Unlock() of method op.
Writing(op) == \E q \in Procs : frame[q].op = op /\ frame[q].st = "locked"

\* C15: SetReady(v) sets ready to v and leaves shuttingDown and the checkers
\* alone, SetShuttingDown(v) sets shuttingDown to v and leaves ready and the
\* checkers alone; and whenever no setter of a flag is in the middle of its
\* write, the flag holds the argument of the last setter call for it to
\* have taken the lock.
C15_SettersOwnFlag ==
    [][ /\ \A self \in Procs :
             /\ WriteStep(self, "SetReady") =>
                   /\ ready' = frame[self].argB
                   /\ UNCHANGED <<shuttingDown, checkers>>
             /\ WriteStep(self, "SetShuttingDown") =>
                   /\ shuttingDown' = frame[self].argB
                   /\ UNCHANGED <<ready, checkers>>
        /\ ~Writing("SetReady")' => ready' = lin'.ready
        /\ ~Writing("SetShuttingDown")' => shuttingDown' = lin'.shuttingDown
      ]_vars

W_C15 ==
    \E p, q \in Procs :
        /\ frame[p].op = "SetReady" /\ frame[p].st = "ret" /\ frame[p].argB
        /\ frame[q].op = "SetReady" /\ frame[q].st = "ret" /\ ~frame[q].argB
        /\ shuttingDown
        /\ ready = lin.ready

\* Process self returns from Check in this step.
ReturnStep(self) ==
    /\ frame[self].op = "Check"
    /\ frame[self].st = "loop"
    /\ frame'[self].st = "ret"

\* The names registered so far.
LastRegistered == {n \in Names : lin.checkers[n] # NoChecker}

\* C16: the report of a Check that returns has one entry for every name
\* registered before it, the entry being the outcome of the checker last
\* registered under that name; RegisterChecker stores its argument under
\* the argument's name and leaves the two flags and the other names alone.
C16_LastRegistrationWins ==
    [][ \A self \in Procs :
          /\ ReturnStep(self) =>
                /\ DOMAIN frame'[self].results = LastRegistered
                /\ \A n \in LastRegistered :
                      frame'[self].results[n] =
                          CheckEntry(n, lin.checkers[n].behaviour = "fail")
          /\ WriteStep(self, "RegisterChecker") =>
                /\ checkers' = [checkers EXCEPT ![frame[self].argC.name] = frame[self].argC]
                /\ UNCHANGED <<ready, shuttingDown>>
      ]_vars

\* A Check about to return the outcome of a checker that replaced another.
W_C16 ==
    \E p \in Procs :
        /\ frame[p].op = "Check" /\ frame[p].st = "loop" /\ frame[p].todo = {}
        /\ \E n \in lin.replaced : n \in DOMAIN frame[p].results

\* The processes between Lock() and Unlock(), and those between RLock() and
\* RUnlock() of Check.
InWrite == {p \in Procs : frame[p].st = "locked"}
InRead == {p \in Procs : frame[p].op = "Check" /\ frame[p].st \in {"loop", "hung"}}

\* C17: at most one writer is inside its critical section, and none while a
\* Check is inside its own; so for as long as a Check holds the read lock
\* the two flags are the values it put in its report, and the checkers are
\* the ones it iterates over.
C17_MutualExclusion ==
    /\ Cardinality(InWrite) <= 1
    /\ InWrite # {} => InRead = {}
    /\ \A p \in InRead :
          /\ frame[p].rdy = ready
          /\ frame[p].sd = shuttingDown
          /\ frame[p].st = "loop" =>
                /\ frame[p].todo \cup DOMAIN frame[p].results = Registered
                /\ \A n \in DOMAIN frame[p].results :
                      frame[p].results[n] =
                          CheckEntry(n, checkers[n].behaviour = "fail")

\* Two Checks inside together; a writer kept waiting by a Check.
W_C17 == Cardinality(InRead) >= 2

W_C17_WriterWaits ==
    /\ InRead # {}
    /\ \E q \in Procs : frame[q].st = "lockWait"

\* C19: in the output every record's bytes are directly followed by that
\* record's newline (or are the last thing written so far).
C19_RecordsContiguous ==
    \A i \in 1..Len(output) :
        output[i].part = "data" =>
            \/ i = Len(output)
            \/ output[i + 1] = [rec |-> output[i].rec, part |-> "newline"]
====
